---------------------------- MODULE Spec2Model ----------------------------
(***************************************************************************)
(* Rocket launch aerodynamics simulator: the 1-D flight integrator         *)
(* (stepSimulation), the trajectory route (POST /api/simulation/run) and   *)
(* the analysis route (POST /api/design/analyze).                          *)
(*                                                                         *)
(* The program computes in IEEE doubles.  The model computes in fixed      *)
(* point on integers, every quantity in one unit:                          *)
(*   time          ticks of 1/60 s (the route's dt is one tick)            *)
(*   length        mm           velocity      mm/s                         *)
(*   acceleration  mm/s^2       mass          1e-4 kg                      *)
(*   force         uN (1e-6 N)  area          mm^2                         *)
(*   temperature   1e-2 K       pressure      Pa                           *)
(*   density       1e-4 kg/m^3  ratios (Mach, Cd, factors)  1e-4           *)
(* A division of the program is an integer division here (\div, rounding   *)
(* down), staged so that no intermediate exceeds 32 bits.  The time of a   *)
(* state is the exact number of ticks; the rounding of the accumulated     *)
(* double is not modelled.                                                 *)
(***************************************************************************)
EXTENDS Integers, Sequences, FiniteSets, TLC

VARIABLES
    catalog,            \* motors.ts MOTORS: the module-level motor array
    pc,                 \* position of the request being served
    design,             \* body.design of the request
    params,             \* SimulationParams of the run (or NoParams)
    dt,                 \* timestep of the run, in ticks
    state,              \* the run's current SimulationState
    states,             \* the sequence of states pushed so far
    telemetryHistory,   \* the telemetry series of the response
    response,           \* the HTTP response of the request (or NoResponse)
    nRequests,          \* requests served so far
    prevRun,            \* the request served before this one: its design and result
    peer,               \* a second request served at the same time: its locals
    call,               \* a call of a library function: its name, arguments, result
    page                \* RocketSimulator.tsx: the state and refs of the page

vars == <<catalog, pc, design, params, dt, state, states, telemetryHistory,
          response, nRequests, prevRun, peer, call, page>>

\* what the routes' handlers of one request have no access to
extVars == <<peer, call, page>>

NoPeer == [none |-> TRUE]
NoCall == [none |-> TRUE]
NoPage == [none |-> TRUE]

-----------------------------------------------------------------------------
(* Fixed point helpers *)

E4 == 10 * 1000

\* Math.PI, in 1e-4
PI_E4 == (355 * E4) \div 113

\* floor(x * f / 1e4) without an intermediate beyond 32 bits (f >= 0)
MulE4(x, f) == (x \div E4) * f + ((x % E4) * f) \div E4

\* a / b rounded toward zero (b > 0): like the double's division, the quotient
\* of -a is minus the quotient of a
Quot(a, b) == IF a >= 0 THEN a \div b ELSE -((-a) \div b)

Max(a, b) == IF a >= b THEN a ELSE b
Min(a, b) == IF a <= b THEN a ELSE b
Abs(a) == IF a >= 0 THEN a ELSE -a

RECURSIVE SqrtIter(_, _)
SqrtIter(n, x) ==
    LET y == (x + n \div x) \div 2
    IN  IF y >= x THEN x ELSE SqrtIter(n, y)

\* Math.sqrt on a non-negative integer, rounded down
Sqrt(n) == IF n <= 0 THEN 0 ELSE IF n < 4 THEN 1 ELSE SqrtIter(n, n \div 2)

RECURSIVE ExpSeries(_, _, _, _)
\* sum of the terms (-x)^k / k! from the term `term` (number k) on, x in 1e-4
ExpSeries(x, k, term, acc) ==
    IF term = 0 THEN acc
    ELSE LET next == (term * x) \div ((k + 1) * E4)
         IN  ExpSeries(x, k + 1, next,
                       IF k % 2 = 0 THEN acc + term ELSE acc - term)

RECURSIVE ExpNeg(_)
\* Math.exp(-x) for x >= 0, x and the result in 1e-4
ExpNeg(x) ==
    IF x > E4 \div 2
    THEN LET h == ExpNeg(x \div 2) r == ExpNeg(x - x \div 2) IN (h * r) \div E4
    ELSE ExpSeries(x, 0, E4, 0)

\* Math.sin(Math.PI * t) for t in [0, 1], t and the result in 1e-4
\* (Bhaskara's rational approximation; exact at t = 0, 1/2, 1)
SinPi(t) ==
    LET u == (t * (E4 - t)) \div E4      \* t (1 - t), in 1e-4
    IN  IF t <= 0 \/ t >= E4 THEN 0
        ELSE (16 * u * E4) \div (5 * E4 - 4 * u)

-----------------------------------------------------------------------------
(* atmosphere.ts *)

R_AIR == 28705              \* 287.05 J/(kg K), in 1e-2
T0 == 28815                 \* 288.15 K
RHO0 == 12250               \* 1.225 kg/m^3
LAPSE == 65                 \* 0.0065 K/m, in 1e-4 K/m
TROPOPAUSE_ALT == 11000000  \* 11000 m
T_TROP == 21665             \* 216.65 K
P0 == 101325                \* Pa

temperature(altitude) ==
    IF altitude <= 0 THEN T0
    ELSE IF altitude <= TROPOPAUSE_ALT
         THEN T0 - (LAPSE * (altitude \div 1000)) \div 100
         ELSE T_TROP

density(altitude) ==
    IF altitude <= 0 THEN RHO0
    ELSE (RHO0 * ExpNeg(altitude \div 740)) \div E4

pressure(altitude) ==
    LET rho == density(altitude)
        T == temperature(altitude)
    IN  (((rho * T) \div E4) * R_AIR) \div E4

\* sqrt(1.4 * R_AIR * T), in cm/s
speedOfSound(altitude) ==
    LET T == temperature(altitude)
    IN  Sqrt(((14 * R_AIR) \div 10) * T)

\* velocity in mm/s; the Mach number in 1e-4
machNumber(velocity, altitude) ==
    LET a == speedOfSound(altitude)
    IN  IF a > 0 THEN (velocity * 1000) \div a ELSE 0

-----------------------------------------------------------------------------
(* drag.ts *)

dragCoefficient(mach) ==
    IF mach < 8000 THEN 3500
    ELSE IF mach <= 12000
         THEN LET t == ((mach - 8000) * E4) \div 4000
              IN  3500 + (t * (E4 - 3500)) \div E4 + (3000 * SinPi(t)) \div E4
         ELSE 6000 - (200 * Min(mach - 12000, 2 * E4)) \div E4

\* 0.5 * rho * v^2 * Cd * A, in uN
dragForceMagnitude(airDensity, velocityMagnitude, cd, refArea) ==
    LET rhoCd == (airDensity * cd) \div E4
        vcm == velocityMagnitude \div 10
        v2 == (vcm * vcm) \div E4                \* (m/s)^2
    IN  (((rhoCd * v2) \div 1000) * refArea) \div 20

-----------------------------------------------------------------------------
(* motors.ts *)

TicksPerSecond == 60

\* trapezoidalThrust without the ramp down: the peak until burnout
trapezoidalThrustNoRampDown(peakThrust, burnTime, rampUpRatio, rampDownRatio, t) ==
    LET t1 == burnTime * rampUpRatio
    IN  IF t <= 0 \/ t >= burnTime THEN 0
        ELSE IF t * E4 < t1 THEN peakThrust * ((t * E4 * 1000) \div t1)
        ELSE peakThrust * 1000

\* The curve returned by trapezoidalThrust(peakThrust, burnTime, rampUpRatio,
\* rampDownRatio), applied to t.  peakThrust in mN, burnTime and t in ticks,
\* the ratios in 1e-4; the thrust in uN.
trapezoidalThrust(peakThrust, burnTime, rampUpRatio, rampDownRatio, t) ==
    LET t1 == burnTime * rampUpRatio                 \* ticks, in 1e-4
        t2 == burnTime * (E4 - rampDownRatio)        \* ticks, in 1e-4
    IN  IF t <= 0 \/ t >= burnTime THEN 0
        ELSE IF t * E4 < t1 THEN peakThrust * ((t * E4 * 1000) \div t1)
        ELSE IF t * E4 <= t2 THEN peakThrust * 1000
        ELSE peakThrust * (((burnTime - t) * E4 * 1000) \div (burnTime * E4 - t2))

RAMP_UP == 1000             \* rampUpRatio = 0.1
RAMP_DOWN == 2000           \* rampDownRatio = 0.2

\* the catalog as the module sets it: totalImpulse in 0.1 N s, burnTime in
\* ticks, masses in 1e-4 kg, peakThrust (the curve's closure argument) in mN
MOTORS == <<
    [id |-> "estes-a8", name |-> "Estes A8", totalImpulse |-> 25,
     burnTime |-> 30, propellantMass |-> 60, dryMass |-> 120, peakThrust |-> 5500],
    [id |-> "estes-b6", name |-> "Estes B6", totalImpulse |-> 50,
     burnTime |-> 48, propellantMass |-> 120, dryMass |-> 120, peakThrust |-> 7500],
    [id |-> "estes-c6", name |-> "Estes C6", totalImpulse |-> 100,
     burnTime |-> 96, propellantMass |-> 240, dryMass |-> 120, peakThrust |-> 9000],
    [id |-> "estes-d12", name |-> "Estes D12", totalImpulse |-> 200,
     burnTime |-> 132, propellantMass |-> 440, dryMass |-> 140, peakThrust |-> 14000],
    [id |-> "custom-mid", name |-> "Custom Mid", totalImpulse |-> 500,
     burnTime |-> 180, propellantMass |-> 800, dryMass |-> 200, peakThrust |-> 25000] >>

\* motor.thrustAt(t)
thrustAt(motor, t) ==
    trapezoidalThrust(motor.peakThrust, motor.burnTime, RAMP_UP, RAMP_DOWN, t)

NoMotor == [id |-> "undefined"]

\* getMotor falling back to the first motor of the catalog
getMotorOrFirst(id) ==
    LET hits == {i \in 1..Len(catalog) : catalog[i].id = id}
    IN  IF hits = {} THEN catalog[1]
        ELSE catalog[CHOOSE i \in hits : \A j \in hits : i <= j]

\* MOTORS.find((m) => m.id === id): the first match, or undefined
getMotor(id) ==
    LET hits == {i \in 1..Len(catalog) : catalog[i].id = id}
    IN  IF hits = {} THEN NoMotor
        ELSE catalog[CHOOSE i \in hits : \A j \in hits : i <= j]

-----------------------------------------------------------------------------
(* barrowman.ts: reference area *)

\* pi r^2 with r = bodyDiameter / 2, in mm^2
referenceArea(geometry) ==
    (PI_E4 * geometry.bodyDiameter * geometry.bodyDiameter) \div (4 * E4)

-----------------------------------------------------------------------------
(* simulation.ts *)

G == 981                    \* 9.81 m/s^2: uN per 1e-4 kg
MAX_TRAIL == 500
DT == 1                     \* 1/60 s

\* Optional field of an object: its value, or the default when it is absent
Field(obj, name, default) == IF name \in DOMAIN obj THEN obj[name] ELSE default

thrustAltitudeFactor(altitude) ==
    LET p == pressure(altitude)
        ratio == (p * E4) \div P0
    IN  E4 + (1200 * (E4 - Max(0, ratio))) \div E4

\* initialState with the propellant left out of the mass
initialStateNoPropellant(p) ==
    [time |-> 0, altitude |-> 0, velocity |-> 0, acceleration |-> 0,
     mass |-> p.dryMass + p.motor.dryMass, mach |-> 0, cd |-> dragCoefficient(0),
     airDensity |-> density(0), thrust |-> 0, drag |-> 0,
     phase |-> "pre", apogee |-> 0, trail |-> << >>]

initialState(p) ==
    LET motor == p.motor
        mass == p.dryMass + motor.propellantMass + motor.dryMass
    IN  [time |-> 0, altitude |-> 0, velocity |-> 0, acceleration |-> 0,
         mass |-> mass, mach |-> 0, cd |-> dragCoefficient(0),
         airDensity |-> density(0), thrust |-> 0, drag |-> 0,
         phase |-> "pre", apogee |-> 0, trail |-> << >>]

createSimulationState(p) == initialState(p)

\* stepPhase with the ignition rule applied in every phase, not only in pre
stepPhaseIgnitionAnyPhase(s, p, t, inBurn) ==
    LET v == s.velocity
        ph1 == IF Field(p, "motorStartTime", 0) <= t
               THEN (IF inBurn THEN "burn" ELSE "coast")
               ELSE s.phase
        ph2 == IF s.phase = "burn" /\ ~inBurn THEN "coast" ELSE ph1
        apogee == IF ph2 = "coast" THEN Max(s.apogee, s.altitude) ELSE s.apogee
        ph3 == IF ph2 = "coast" /\ v < 0 THEN "apogee" ELSE ph2
        ph4 == IF s.phase = "apogee" THEN "recovery" ELSE ph3
    IN  [phase |-> ph4, apogee |-> apogee]

\* stepPhase with the parachute rule reading the new phase, not the old one
stepPhaseRecoveryOnNewPhase(s, p, t, inBurn) ==
    LET v == s.velocity
        ph1 == IF s.phase = "pre" /\ Field(p, "motorStartTime", 0) <= t
               THEN (IF inBurn THEN "burn" ELSE "coast")
               ELSE s.phase
        ph2 == IF s.phase = "burn" /\ ~inBurn THEN "coast" ELSE ph1
        apogee == IF ph2 = "coast" THEN Max(s.apogee, s.altitude) ELSE s.apogee
        ph3 == IF ph2 = "coast" /\ v < 0 THEN "apogee" ELSE ph2
        ph4 == IF ph3 = "apogee" THEN "recovery" ELSE ph3
    IN  [phase |-> ph4, apogee |-> apogee]

\* stepPhase with ignition only once the ignition time is behind: < for <=
stepPhaseIgnitionStrict(s, p, t, inBurn) ==
    LET h == s.altitude
        v == s.velocity
        ph1 == IF s.phase = "pre" /\ Field(p, "motorStartTime", 0) < t
               THEN (IF inBurn THEN "burn" ELSE "coast")
               ELSE s.phase
        ph2 == IF s.phase = "burn" /\ ~inBurn THEN "coast" ELSE ph1
        apogee == IF ph2 = "coast" THEN Max(s.apogee, h) ELSE s.apogee
        ph3 == IF ph2 = "coast" /\ v < 0 THEN "apogee" ELSE ph2
        ph4 == IF s.phase = "apogee" THEN "recovery" ELSE ph3
    IN  [phase |-> ph4, apogee |-> apogee]

\* the phase and the recorded apogee of the new state
stepPhase(s, p, t, inBurn) ==
    LET h == s.altitude
        v == s.velocity
        ph1 == IF s.phase = "pre" /\ Field(p, "motorStartTime", 0) <= t
               THEN (IF inBurn THEN "burn" ELSE "coast")
               ELSE s.phase
        ph2 == IF s.phase = "burn" /\ ~inBurn THEN "coast" ELSE ph1
        apogee == IF ph2 = "coast" THEN Max(s.apogee, h) ELSE s.apogee
        ph3 == IF ph2 = "coast" /\ v < 0 THEN "apogee" ELSE ph2
        ph4 == IF s.phase = "apogee" THEN "recovery" ELSE ph3
    IN  [phase |-> ph4, apogee |-> apogee]

\* stepMass without the snap to the dry mass at burnout
stepMassNoSnap(s, p, t, inBurn, burnElapsed) ==
    LET motor == p.motor
    IN  IF inBurn
        THEN LET propUsed == (burnElapsed * motor.propellantMass) \div motor.burnTime
             IN  p.dryMass + motor.dryMass + motor.propellantMass - propUsed
        ELSE s.mass

\* the mass of the new state
stepMass(s, p, t, inBurn, burnElapsed) ==
    LET motor == p.motor
        motorStartTime == Field(p, "motorStartTime", 0)
        burnTime == motor.burnTime
    IN  IF inBurn
        THEN LET propUsed == (burnElapsed * motor.propellantMass) \div burnTime
             IN  p.dryMass + motor.dryMass + motor.propellantMass - propUsed
        ELSE IF t >= motorStartTime + burnTime /\ s.phase = "burn"
             THEN p.dryMass + motor.dryMass
             ELSE s.mass

\* stepAltitude without the floor
stepAltitudeNoFloor(h, v, acceleration, d) ==
    h + (v * d) \div TicksPerSecond
      + (acceleration * d * d) \div (2 * TicksPerSecond * TicksPerSecond)

\* altitude floored at ground level
stepAltitude(h, v, acceleration, d) ==
    Max(0, h + (v * d) \div TicksPerSecond
             + (acceleration * d * d) \div (2 * TicksPerSecond * TicksPerSecond))

\* the trail entry a step appends for the state it returns
TrailPoint(s) ==
    [altitude |-> s.altitude, velocity |-> s.velocity, mach |-> s.mach,
     time |-> s.time]

\* stepTrail evicting with pop(), the newest entry, instead of shift()
stepTrailEvictNewest(s, p, point) ==
    LET trail == Append(s.trail, point)
        maxTrail == Field(p, "maxTrailPoints", MAX_TRAIL)
    IN  IF Len(trail) > maxTrail THEN SubSeq(trail, 1, Len(trail) - 1) ELSE trail

\* the trail of the new state
stepTrail(s, p, point) ==
    LET trail == Append(s.trail, point)
        maxTrail == Field(p, "maxTrailPoints", MAX_TRAIL)
    IN  IF Len(trail) > maxTrail THEN Tail(trail) ELSE trail

\* stepDrag with the sign of the ascent whatever the velocity
stepDragAlwaysNegative(v, dragMag) == -dragMag

\* the drag force of the step, signed: v >= 0 ? -dragMag : dragMag
stepDrag(v, dragMag) == IF v >= 0 THEN -dragMag ELSE dragMag

\* the input with the new point pushed onto its own trail array
\* (const trail = state.trail, without the copy)
stepInputPushedInPlace(s, p, point) == [s EXCEPT !.trail = stepTrail(s, p, point)]

\* The state object given to stepSimulation, as the call leaves it: the call
\* assigns to no field of it, and pushes onto a copy of its trail ([...state.trail])
stepInput(s, p, point) == s

\* stepAtmosphere with the air of the launch site whatever the altitude
stepAtmosphereAtSeaLevel(h, v) ==
    LET mach == machNumber(Abs(v), 0)
    IN  [rho |-> density(0), mach |-> mach, cd |-> dragCoefficient(mach)]

\* air density, Mach number and drag coefficient of the step: those of the
\* altitude and the velocity of the state given to it
stepAtmosphere(h, v) ==
    LET mach == machNumber(Abs(v), h)
    IN  [rho |-> density(h), mach |-> mach, cd |-> dragCoefficient(mach)]

stepSimulation(s, p, d) ==
    LET motor == p.motor
        motorStartTime == Field(p, "motorStartTime", 0)
        t == s.time + d
        h == s.altitude
        v == s.velocity
        burnTime == motor.burnTime
        inBurn == t >= motorStartTime /\ t < motorStartTime + burnTime
        burnElapsed == IF inBurn THEN t - motorStartTime ELSE 0
        mass == stepMass(s, p, t, inBurn, burnElapsed)
        thrustRaw == IF inBurn THEN thrustAt(motor, burnElapsed) ELSE 0
        thrust == MulE4(thrustRaw, IF inBurn THEN thrustAltitudeFactor(h) ELSE E4)
        air == stepAtmosphere(h, v)
        rho == air.rho
        mach == air.mach
        cd == air.cd
        dragMag == dragForceMagnitude(rho, Abs(v), cd, p.referenceArea)
        drag == stepDrag(v, dragMag)
        gravity == -G * mass
        netForce == thrust + drag + gravity
        acceleration == IF mass > 0 THEN (netForce * 10) \div mass ELSE 0
        newVelocity == v + (acceleration * d) \div TicksPerSecond
        newAltitude == stepAltitude(h, v, acceleration, d)
        pa == stepPhase(s, p, t, inBurn)
        trail == stepTrail(s, p, [altitude |-> newAltitude, velocity |-> newVelocity,
                                  mach |-> mach, time |-> t])
    IN  [time |-> t, altitude |-> newAltitude, velocity |-> newVelocity,
         acceleration |-> acceleration, mass |-> mass, mach |-> mach, cd |-> cd,
         airDensity |-> rho, thrust |-> thrust, drag |-> drag,
         phase |-> pa.phase, apogee |-> pa.apogee, trail |-> trail]

-----------------------------------------------------------------------------
(* cg.ts *)

NOSE_DENSITY == 500         \* kg/m^3

\* (1/3) pi (d/2)^2 noseLength * 500, in 1e-4 kg
noseMassEstimate(bodyDiameter, noseLength) ==
    (((((PI_E4 * bodyDiameter * bodyDiameter) \div E4) * noseLength) \div 100)
        * NOSE_DENSITY) \div 12000

RECURSIVE SumMx(_, _)
SumMx(components, i) ==
    IF i > Len(components) THEN 0
    ELSE components[i].mass * components[i].positionFromNose + SumMx(components, i + 1)

RECURSIVE SumM(_, _)
SumM(components, i) ==
    IF i > Len(components) THEN 0
    ELSE components[i].mass + SumM(components, i + 1)

\* computeCG with a loop that stops one component short
computeCGSkipsLast(components) ==
    LET short == SubSeq(components, 1, Len(components) - 1)
        sumMx == SumMx(short, 1)
        sumM == SumM(short, 1)
    IN  IF sumM <= 0 THEN 0 ELSE sumMx \div sumM

computeCG(components) ==
    LET sumMx == SumMx(components, 1)
        sumM == SumM(components, 1)
    IN  IF sumM <= 0 THEN 0 ELSE sumMx \div sumM

buildCGComponents(p) ==
    LET noseMass == Field(p, "noseMass", noseMassEstimate(p.bodyDiameter, p.noseLength))
        nose == [positionFromNose |-> (3 * p.noseLength) \div 4, mass |-> noseMass]
        body == [positionFromNose |-> p.noseLength + p.bodyLength \div 2,
                 mass |-> p.bodyMass]
        finCenterX == p.finRootLeadingEdge + (p.finRootChord + p.finTipChord) \div 4
        fins == [positionFromNose |-> finCenterX, mass |-> p.finMass]
        payload == [positionFromNose |-> p.payloadPosition, mass |-> p.payloadMass]
        motor == [positionFromNose |-> p.motorPosition, mass |-> p.motorMass]
    IN  <<nose, body, fins>>
          \o (IF p.payloadMass > 0 THEN <<payload>> ELSE << >>)
          \o <<motor>>

centerOfGravity(p) == computeCG(buildCGComponents(p))

-----------------------------------------------------------------------------
(* barrowman.ts: center of pressure.  Normal-force coefficients in 1e-4,    *)
(* offsets from the nose tip in mm.                                         *)

\* The double NaN, which 0 / 0 yields and every operation on it passes on; a
\* value below every length and coefficient of the model stands for it
NaN == -(2 ^ 30)
IsNaN(x) == x = NaN

noseTerms(ln, shape) ==
    [CN |-> 2 * E4,
     X |-> IF shape = "cone" THEN (2 * ln) \div 3 ELSE (466 * ln) \div 1000]

finTerms(g) ==
    LET d == g.bodyDiameter
        S == g.finSemispan
        CR == g.finRootChord
        CT == g.finTipChord
        XR == g.finSweep
        XB == g.finRootLeadingEdge
        N == g.numFins
        \* 1 + R / (S + R) with R = d / 2
        K_FB == E4 + (d * E4) \div (2 * S + d)
        \* twice the mid-chord offset XR + (CT - CR) / 2
        mid2 == 2 * XR + CT - CR
        \* 2 LF, in 0.1 mm
        LF2 == Sqrt((4 * S * S + mid2 * mid2) * 100)
        ratio == (LF2 * 1000) \div (CR + CT)
        denom == E4 + Sqrt(E4 + MulE4(ratio, ratio)) * 100
        sd == (S * E4) \div d
        num == MulE4(4 * N * MulE4(sd, sd), K_FB)
        CN_F == (num \div denom) * E4 + ((num % denom) * E4) \div denom
        XF == XB + (XR * (CR + 2 * CT)) \div (3 * (CR + CT))
                 + (CR * CR + CT * CT + CR * CT) \div (6 * (CR + CT))
    IN  IF CR + CT = 0
        \* the divisions by CR + CT: 2 LF / 0 is Infinity (0 / 0 = NaN when LF
        \* is 0 too), so denom is Infinity and CN_F is 0; XF has 0 / 0 = NaN
        THEN [CN |-> IF LF2 = 0 THEN NaN ELSE 0, X |-> NaN]
        ELSE [CN |-> CN_F, X |-> XF]

centerOfPressure(geometry) ==
    LET nose == noseTerms(geometry.noseLength, geometry.noseShape)
        fin == finTerms(geometry)
        totalCN == nose.CN + fin.CN
    IN  IF IsNaN(fin.CN) THEN NaN           \* NaN <= 0 is false, NaN / NaN
        ELSE IF totalCN <= 0 THEN 0
        ELSE IF IsNaN(fin.X) THEN NaN       \* fin.CN * NaN, also for fin.CN = 0
        ELSE (nose.CN * nose.X + fin.CN * fin.X) \div totalCN

\* (CP - CG) / diameter, in 1e-4 calibers
stabilityMarginCalibers(cpFromNose, cgFromNose, diameter) ==
    Quot((cpFromNose - cgFromNose) * E4, diameter)

isStable(calibers, minCalibers) == calibers >= minCalibers

\* isStable(calibers) with the default minCalibers = 1
isStableDefault(calibers) == isStable(calibers, E4)

-----------------------------------------------------------------------------
(* designToSim.ts *)

NoParams == [null |-> TRUE]

getSimParams(d) ==
    LET motor == getMotor(d.motorId)
        g == d.geometry
        noseMass == Field(d, "noseMass", noseMassEstimate(g.bodyDiameter, g.noseLength))
        dryMass == noseMass + d.bodyMass + d.finMass + d.payloadMass + motor.dryMass
    IN  IF motor = NoMotor THEN NoParams
        ELSE [referenceArea |-> referenceArea(g), dryMass |-> dryMass,
              motor |-> motor, motorStartTime |-> 0, deployAtApogee |-> TRUE,
              maxTrailPoints |-> 500]

FALLBACK_MOTOR_MASS == 300  \* 0.03 kg

\* the margin with CP and CG the wrong way round
preLaunchStabilitySwapped(cp, cg, diameter) ==
    LET stabilityCalibers == Quot((cg - cp) * E4, diameter)
    IN  [stabilityCalibers |-> stabilityCalibers, isStable |-> stabilityCalibers >= E4]

\* stabilityCalibers = (cp - cg) / diameter; isStable = stabilityCalibers >= 1
preLaunchStability(cp, cg, diameter) ==
    LET stabilityCalibers == Quot((cp - cg) * E4, diameter)
    IN  [stabilityCalibers |-> stabilityCalibers, isStable |-> stabilityCalibers >= E4]

\* the argument getPreLaunchResults passes to centerOfGravity
preLaunchCGParams(d) ==
    LET g == d.geometry
        m == getMotor(d.motorId)
        base == [noseLength |-> g.noseLength, bodyLength |-> g.bodyLength,
                 bodyDiameter |-> g.bodyDiameter,
                 finRootLeadingEdge |-> g.finRootLeadingEdge,
                 finRootChord |-> g.finRootChord, finTipChord |-> g.finTipChord,
                 bodyMass |-> d.bodyMass, finMass |-> d.finMass,
                 payloadMass |-> d.payloadMass, payloadPosition |-> d.payloadPosition,
                 motorMass |-> IF m # NoMotor THEN m.propellantMass + m.dryMass
                               ELSE FALLBACK_MOTOR_MASS,
                 motorPosition |-> d.motorPosition]
    IN  IF "noseMass" \in DOMAIN d
        THEN base @@ [noseMass |-> d.noseMass]
        ELSE base

getPreLaunchResults(d) ==
    LET g == d.geometry
        cp == centerOfPressure(g)
        cgParams == preLaunchCGParams(d)
        cg == centerOfGravity(cgParams)
        diameter == g.bodyDiameter
        margin == preLaunchStability(cp, cg, diameter)
    IN  [cp |-> cp, cg |-> cg, stabilityCalibers |-> margin.stabilityCalibers,
         isStable |-> margin.isStable]

-----------------------------------------------------------------------------
(* RocketSimulator.tsx: the design the page starts with *)

DEFAULT_DESIGN ==
    [geometry |-> [noseLength |-> 100, noseShape |-> "cone", bodyDiameter |-> 40,
                   bodyLength |-> 350, finRootLeadingEdge |-> 400,
                   finRootChord |-> 80, finTipChord |-> 40, finSemispan |-> 40,
                   finSweep |-> 20, numFins |-> 3],
     bodyMass |-> 300, finMass |-> 100, payloadMass |-> 200,
     payloadPosition |-> 150, motorId |-> "estes-c6", motorPosition |-> 420]

-----------------------------------------------------------------------------
(* Bounds and inputs of the model *)

MaxPayload == 2         \* payload masses of the requests: 1..MaxPayload steps
MaxRequests == 2        \* requests served in one behaviour
MaxSteps == 200         \* steps of a directly driven trajectory
MaxDryMass == 2         \* dry masses of a directly driven trajectory: 1..MaxDryMass steps

PayloadStep == 10 * 1000    \* 1 kg

\* motor identifiers a request may carry: catalog entries and one that is none
RequestMotorIds ==
    {"estes-a8", "estes-b6", "estes-c6", "estes-d12", "custom-mid", "no-such-motor"}

NoDesign == [undefined |-> TRUE]

Designs ==
    {[DEFAULT_DESIGN EXCEPT !.motorId = m, !.payloadMass = k * PayloadStep] :
        m \in RequestMotorIds, k \in 1..MaxPayload}

NoState == [null |-> TRUE]
NoResponse == [pending |-> TRUE]
NoRun == [none |-> TRUE]

-----------------------------------------------------------------------------
(* app/api/simulation/run/route.ts and app/api/design/analyze/route.ts *)

maxTime == 120 * TicksPerSecond

\* Math.ceil(maxTime / dt) + 10
maxStates(d) == (maxTime + d - 1) \div d + 10

\* states.map((s) => ({ time, altitude, velocity }))
MapTelemetry(ss) ==
    [i \in 1..Len(ss) |-> [time |-> ss[i].time, altitude |-> ss[i].altitude,
                           velocity |-> ss[i].velocity]]

Init ==
    /\ catalog = MOTORS
    /\ pc = "idle"
    /\ design = NoDesign
    /\ params = NoParams
    /\ dt = DT
    /\ state = NoState
    /\ states = << >>
    /\ telemetryHistory = << >>
    /\ response = NoResponse
    /\ nRequests = 0
    /\ prevRun = NoRun
    /\ peer = NoPeer
    /\ call = NoCall
    /\ page = NoPage

\* POST /api/simulation/run up to the loop, for body.design = d: lines 7-20
StartRun(d) ==
    /\ design' = d
    /\ dt' = DT
    /\ IF d = NoDesign
       THEN /\ response' = [kind |-> "run", status |-> 400, error |-> "Missing design"]
            /\ pc' = "done"
            /\ UNCHANGED <<params, state, states>>
       ELSE LET p == getSimParams(d) IN
            /\ params' = p
            /\ IF p = NoParams
               THEN /\ response' = [kind |-> "run", status |-> 400,
                                    error |-> "Invalid motor or design"]
                    /\ pc' = "done"
                    /\ UNCHANGED <<state, states>>
               ELSE /\ state' = createSimulationState(p)
                    /\ states' = <<createSimulationState(p)>>
                    /\ pc' = "loop"
                    /\ response' = NoResponse

\* a request to the trajectory route arrives
PostRun ==
    /\ pc = "idle"
    /\ prevRun = NoRun
    /\ \E d \in Designs \cup {NoDesign} : StartRun(d)
    /\ nRequests' = nRequests + 1
    /\ UNCHANGED <<catalog, telemetryHistory, prevRun>>
    /\ UNCHANGED extVars

\* the loop's condition as runToApogee has it: until apogee
LoopConditionUntilApogee == state.time < maxTime /\ state.phase # "apogee"

\* the loop's condition: line 22
LoopCondition == state.time < maxTime /\ state.phase # "recovery"

\* one iteration of the loop that uses up the propellant of the shared catalog
\* entry in place
LoopStepDepletingCatalog ==
    /\ pc = "loop"
    /\ LoopCondition
    /\ state' = stepSimulation(state, params, dt)
    /\ states' = Append(states, state')
    /\ pc' = IF Len(states') > maxStates(dt) THEN "break" ELSE "loop"
    /\ catalog' = [i \in DOMAIN catalog |->
                     IF catalog[i].id = params.motor.id /\ state'.phase = "burn"
                     THEN [catalog[i] EXCEPT !.propellantMass = Max(0, @ - 1)]
                     ELSE catalog[i]]
    /\ UNCHANGED <<design, params, dt, telemetryHistory, response, nRequests, prevRun>>
    /\ UNCHANGED extVars

\* one iteration of the loop: lines 22-27
LoopStep ==
    /\ pc = "loop"
    /\ LoopCondition
    /\ state' = stepSimulation(state, params, dt)
    /\ states' = Append(states, state')
    /\ pc' = IF Len(states') > maxStates(dt) THEN "break" ELSE "loop"
    /\ UNCHANGED <<catalog, design, params, dt, telemetryHistory, response,
                   nRequests, prevRun>>
    /\ UNCHANGED extVars

\* after the loop: lines 29-31
Respond ==
    /\ IF pc = "loop" THEN ~LoopCondition ELSE pc = "break"
    /\ telemetryHistory' = MapTelemetry(states)
    /\ response' = [kind |-> "run", status |-> 200]
    /\ pc' = "done"
    /\ UNCHANGED <<catalog, design, params, dt, state, states, nRequests, prevRun>>
    /\ UNCHANGED extVars

\* POST /api/design/analyze
PostAnalyze ==
    /\ pc = "idle"
    /\ prevRun = NoRun
    /\ \E d \in Designs \cup {NoDesign} :
          /\ design' = d
          /\ response' = IF d = NoDesign
                         THEN [kind |-> "analyze", status |-> 400,
                               error |-> "Missing design"]
                         ELSE [kind |-> "analyze", status |-> 200,
                               body |-> getPreLaunchResults(d)]
    /\ pc' = "done"
    /\ nRequests' = nRequests + 1
    /\ UNCHANGED <<catalog, params, dt, state, states, telemetryHistory, prevRun>>
    /\ UNCHANGED extVars

\* one request, of either route, with any design
Next == PostRun \/ LoopStep \/ Respond \/ PostAnalyze

Spec == Init /\ [][Next]_vars

-----------------------------------------------------------------------------
(* The trajectory route serving the same design again: the handler's locals *)
(* are fresh on every request, the module-level catalog is the one array.   *)

\* the response is sent and the handler returns; prevRun records what it sent
Finish ==
    /\ pc = "done"
    /\ nRequests < MaxRequests
    /\ prevRun' = [design |-> design, response |-> response, states |-> states,
                   telemetryHistory |-> telemetryHistory]
    /\ pc' = "idle"
    /\ design' = NoDesign
    /\ params' = NoParams
    /\ state' = NoState
    /\ states' = << >>
    /\ telemetryHistory' = << >>
    /\ response' = NoResponse
    /\ UNCHANGED <<catalog, dt, nRequests>>
    /\ UNCHANGED extVars

\* the next request to the trajectory route carries the same design
PostRunAgain ==
    /\ pc = "idle"
    /\ prevRun # NoRun
    /\ StartRun(prevRun.design)
    /\ nRequests' = nRequests + 1
    /\ UNCHANGED <<catalog, telemetryHistory, prevRun>>
    /\ UNCHANGED extVars

NextRepeat == PostRun \/ LoopStep \/ Respond \/ Finish \/ PostRunAgain

SpecRepeat == Init /\ [][NextRepeat]_vars

-----------------------------------------------------------------------------
(* A trajectory driven directly: stepSimulation applied repeatedly from     *)
(* createSimulationState, for the parameters and timesteps a caller of the  *)
(* exported functions may pass.                                             *)

\* timesteps: the default and a coarse one, longer than the shortest burn
StepDts == {DT, 40 * DT}

\* ignition times: at once, after a few default steps, after one coarse step
StepStartTimes == {0, 3, 45}

\* dry masses: multiples of 0.3 kg, and 0.8 kg, which the thrust of an estes-c6
\* exceeds for a part of its burn only
StepDryMasses == {k * 3000 : k \in 1..MaxDryMass} \cup {8000}

StepTrailCaps == {1, 3}

\* parameters with a trail capacity, and parameters that leave it to the default
StepParams ==
    {[referenceArea |-> referenceArea(DEFAULT_DESIGN.geometry),
      dryMass |-> m, motor |-> MOTORS[i], motorStartTime |-> st,
      deployAtApogee |-> TRUE, maxTrailPoints |-> c] :
        m \in StepDryMasses, i \in DOMAIN MOTORS, st \in StepStartTimes,
        c \in StepTrailCaps}
    \cup
    {[referenceArea |-> referenceArea(DEFAULT_DESIGN.geometry),
      dryMass |-> m, motor |-> MOTORS[i], motorStartTime |-> 0,
      deployAtApogee |-> TRUE] :
        m \in StepDryMasses, i \in DOMAIN MOTORS}

InitStep ==
    /\ catalog = MOTORS
    /\ pc = "step"
    /\ design = NoDesign
    /\ params \in StepParams
    /\ dt \in StepDts
    /\ state = createSimulationState(params)
    /\ states = <<state>>
    /\ telemetryHistory = << >>
    /\ response = NoResponse
    /\ nRequests = 0
    /\ prevRun = NoRun
    /\ peer = NoPeer
    /\ call = NoCall
    /\ page = NoPage

Step ==
    /\ pc = "step"
    /\ Len(states) <= MaxSteps
    /\ state' = stepSimulation(state, params, dt)
    \* the caller keeps the object it passed, and appends the one it got
    /\ states' = Append([states EXCEPT ![Len(states)] =
                            stepInput(state, params, TrailPoint(state'))],
                        state')
    /\ UNCHANGED <<catalog, pc, design, params, dt, telemetryHistory, response,
                   nRequests, prevRun>>
    /\ UNCHANGED extVars

SpecStep == InitStep /\ [][Step]_vars

-----------------------------------------------------------------------------
(* Two requests served at the same time.  Node runs each handler to its     *)
(* next await; the model lets the handlers' steps interleave in any order,  *)
(* which covers every schedule.  Each handler has its own locals (the       *)
(* variables above for one request, the record peer for the other); the     *)
(* catalog is the one module-level array.                                   *)

\* designs of the two requests: a light motor, a heavier one, an unknown one
ConcurrentMotorIds == {"estes-a8", "estes-b6", "no-such-motor"}

ConcurrentDesigns ==
    {[DEFAULT_DESIGN EXCEPT !.motorId = m, !.payloadMass = PayloadStep] :
        m \in ConcurrentMotorIds}

InitConcurrent == Init

\* a request to the trajectory route arrives: lines 7-20
PostRunConcurrent ==
    /\ pc = "idle"
    /\ \E d \in ConcurrentDesigns : StartRun(d)
    /\ nRequests' = nRequests + 1
    /\ UNCHANGED <<catalog, telemetryHistory, prevRun>>
    /\ UNCHANGED extVars

\* the other request arrives at the trajectory route: lines 7-20
PeerPostRun ==
    /\ peer = NoPeer
    /\ \E d \in ConcurrentDesigns :
          LET p == getSimParams(d) IN
          peer' = IF p = NoParams
                  THEN [pc |-> "done", design |-> d, params |-> p, state |-> NoState,
                        states |-> << >>, telemetryHistory |-> << >>,
                        response |-> [kind |-> "run", status |-> 400,
                                      error |-> "Invalid motor or design"],
                        interleaved |-> FALSE]
                  ELSE [pc |-> "loop", design |-> d, params |-> p,
                        state |-> createSimulationState(p),
                        states |-> <<createSimulationState(p)>>,
                        telemetryHistory |-> << >>, response |-> NoResponse,
                        interleaved |-> FALSE]
    /\ UNCHANGED <<catalog, pc, design, params, dt, state, states, telemetryHistory,
                   response, nRequests, prevRun, call, page>>

PeerLoopCondition == peer.state.time < maxTime /\ peer.state.phase # "recovery"

\* the other request's loop with `state` a variable of the module, which both
\* handlers read and write
PeerLoopStepSharedState ==
    /\ peer # NoPeer
    /\ peer.pc = "loop"
    /\ PeerLoopCondition
    /\ LET cur == IF pc = "loop" THEN state ELSE peer.state
           new == stepSimulation(cur, peer.params, DT)
       IN  /\ peer' = [peer EXCEPT
                         !.state = new,
                         !.states = Append(@, new),
                         !.pc = IF Len(peer.states) + 1 > maxStates(DT)
                                THEN "break" ELSE "loop",
                         !.interleaved = @ \/ (pc = "loop" /\ Len(states) > 1)]
           /\ state' = IF pc = "loop" THEN new ELSE state
    /\ UNCHANGED <<catalog, pc, design, params, dt, states, telemetryHistory,
                   response, nRequests, prevRun, call, page>>

\* one iteration of the other request's loop: lines 22-27
PeerLoopStep ==
    /\ peer # NoPeer
    /\ peer.pc = "loop"
    /\ PeerLoopCondition
    /\ LET new == stepSimulation(peer.state, peer.params, DT)
       IN  peer' = [peer EXCEPT
                      !.state = new,
                      !.states = Append(@, new),
                      !.pc = IF Len(peer.states) + 1 > maxStates(DT)
                             THEN "break" ELSE "loop",
                      !.interleaved = @ \/ (pc = "loop" /\ Len(states) > 1)]
    /\ UNCHANGED <<catalog, pc, design, params, dt, state, states, telemetryHistory,
                   response, nRequests, prevRun, call, page>>

\* the other request after its loop: lines 29-31
PeerRespond ==
    /\ peer # NoPeer
    /\ IF peer.pc = "loop" THEN ~PeerLoopCondition ELSE peer.pc = "break"
    /\ peer' = [peer EXCEPT !.telemetryHistory = MapTelemetry(peer.states),
                            !.response = [kind |-> "run", status |-> 200],
                            !.pc = "done"]
    /\ UNCHANGED <<catalog, pc, design, params, dt, state, states, telemetryHistory,
                   response, nRequests, prevRun, call, page>>

\* the other request is one to the analysis route
PeerPostAnalyze ==
    /\ peer = NoPeer
    /\ \E d \in ConcurrentDesigns :
          peer' = [pc |-> "done", design |-> d, params |-> NoParams, state |-> NoState,
                   states |-> << >>, telemetryHistory |-> << >>,
                   response |-> [kind |-> "analyze", status |-> 200,
                                 body |-> getPreLaunchResults(d)],
                   interleaved |-> FALSE]
    /\ UNCHANGED <<catalog, pc, design, params, dt, state, states, telemetryHistory,
                   response, nRequests, prevRun, call, page>>

NextConcurrent ==
    \/ PostRunConcurrent
    \/ LoopStep
    \/ Respond
    \/ PostAnalyze
    \/ PeerPostRun
    \/ PeerLoopStep
    \/ PeerRespond
    \/ PeerPostAnalyze

SpecConcurrent == InitConcurrent /\ [][NextConcurrent]_vars

-----------------------------------------------------------------------------
(* The library functions called on their own: a call is drawn with its      *)
(* arguments, and applying the function sets its result.                    *)

Pending == [pending |-> TRUE]

Call(fn, args) == [fn |-> fn, args |-> args, returned |-> FALSE, result |-> Pending]

\* offsets from the nose tip and diameters, in mm, for the stability margin;
\* some of the offsets are one diameter apart
LibOffsets == {0, 120, 140, 160, 200, 345}
LibDiameters == {20, 40}

StabilityCalls ==
    {Call("stabilityMarginCalibers", [cpFromNose |-> cp, cgFromNose |-> cg, diameter |-> d]) :
        cp \in LibOffsets, cg \in LibOffsets, d \in LibDiameters}

\* designs for the analysis: the payload and the motor moved along the body
LibDesigns ==
    {[DEFAULT_DESIGN EXCEPT !.motorId = m, !.payloadMass = pm,
                            !.payloadPosition = pp, !.motorPosition = mp] :
        m \in RequestMotorIds, pm \in {0, 200, PayloadStep},
        pp \in {50, 150, 400}, mp \in {300, 420}}

AnalyzeCalls == {Call("getPreLaunchResults", [design |-> d]) : d \in LibDesigns}

\* stabilityMarginCalibers and isStable of the library, on a margin
ApplyStability ==
    /\ pc = "lib"
    /\ call.fn = "stabilityMarginCalibers"
    /\ ~call.returned
    /\ LET calibers == stabilityMarginCalibers(call.args.cpFromNose,
                                               call.args.cgFromNose,
                                               call.args.diameter)
       IN  call' = [call EXCEPT !.returned = TRUE,
                                !.result = [calibers |-> calibers,
                                            isStable |-> isStableDefault(calibers)]]
    /\ UNCHANGED <<catalog, pc, design, params, dt, state, states, telemetryHistory,
                   response, nRequests, prevRun, peer, page>>

\* getPreLaunchResults, as the analysis route calls it
ApplyGetPreLaunchResults ==
    /\ pc = "lib"
    /\ call.fn = "getPreLaunchResults"
    /\ ~call.returned
    /\ call' = [call EXCEPT !.returned = TRUE,
                            !.result = getPreLaunchResults(call.args.design)]
    /\ UNCHANGED <<catalog, pc, design, params, dt, state, states, telemetryHistory,
                   response, nRequests, prevRun, peer, page>>

\* mass components: masses in 1e-4 kg (one of them none, one below zero),
\* positions in mm; lists of up to MaxComponents of them
MaxComponents == 3
CGMasses == {-2, 0, 2, 5}
CGPositions == {10, 25}

MassComponents ==
    {[positionFromNose |-> x, mass |-> m] : x \in CGPositions, m \in CGMasses}

ComponentLists ==
    UNION {[1..n -> MassComponents] : n \in 0..MaxComponents}

ComputeCGCalls == {Call("computeCG", [components |-> c]) : c \in ComponentLists}

ApplyComputeCG ==
    /\ pc = "lib"
    /\ call.fn = "computeCG"
    /\ ~call.returned
    /\ call' = [call EXCEPT !.returned = TRUE,
                            !.result = computeCG(call.args.components)]
    /\ UNCHANGED <<catalog, pc, design, params, dt, state, states, telemetryHistory,
                   response, nRequests, prevRun, peer, page>>

\* geometries for the center of pressure: the default one with the nose and
\* the fins varied, down to no fins, no span and no chord; a negative fin count
\* is what brings the combined coefficient to 0 or below
LibFinCounts == {-8, 0, 3}
LibChords == {<<80, 40>>, <<0, 0>>}

LibGeometries ==
    {[DEFAULT_DESIGN.geometry EXCEPT !.noseShape = sh, !.noseLength = ln,
                                     !.numFins = n, !.finSemispan = sp,
                                     !.finRootChord = ch[1], !.finTipChord = ch[2],
                                     !.finSweep = sw] :
        sh \in {"cone", "ogive"}, ln \in {100, 150}, n \in LibFinCounts,
        sp \in {0, 40}, ch \in LibChords, sw \in {0, 20}}

CenterOfPressureCalls ==
    {Call("centerOfPressure", [geometry |-> g]) : g \in LibGeometries}

ApplyCenterOfPressure ==
    /\ pc = "lib"
    /\ call.fn = "centerOfPressure"
    /\ ~call.returned
    /\ call' = [call EXCEPT !.returned = TRUE,
                            !.result = centerOfPressure(call.args.geometry)]
    /\ UNCHANGED <<catalog, pc, design, params, dt, state, states, telemetryHistory,
                   response, nRequests, prevRun, peer, page>>

\* Mach numbers, in 1e-4: every tenth up to 3.5, and the neighbours of the
\* band edges 0.8 and 1.2
LibMachs == {k * 1000 : k \in 0..35} \cup {7999, 8001, 11999, 12001}

DragCoefficientCalls == {Call("dragCoefficient", [mach |-> m]) : m \in LibMachs}

ApplyDragCoefficient ==
    /\ pc = "lib"
    /\ call.fn = "dragCoefficient"
    /\ ~call.returned
    /\ call' = [call EXCEPT !.returned = TRUE,
                            !.result = dragCoefficient(call.args.mach)]
    /\ UNCHANGED <<catalog, pc, design, params, dt, state, states, telemetryHistory,
                   response, nRequests, prevRun, peer, page>>

\* every catalog motor at every tick from before ignition to after burnout
ThrustAtCalls ==
    {Call("thrustAt", [motor |-> MOTORS[i], t |-> t]) :
        i \in DOMAIN MOTORS, t \in -2..182}

ApplyThrustAt ==
    /\ pc = "lib"
    /\ call.fn = "thrustAt"
    /\ ~call.returned
    /\ call' = [call EXCEPT !.returned = TRUE,
                            !.result = thrustAt(call.args.motor, call.args.t)]
    /\ UNCHANGED <<catalog, pc, design, params, dt, state, states, telemetryHistory,
                   response, nRequests, prevRun, peer, page>>

LibCalls ==
    StabilityCalls \cup AnalyzeCalls \cup ComputeCGCalls \cup CenterOfPressureCalls
        \cup DragCoefficientCalls \cup ThrustAtCalls

InitLib ==
    /\ catalog = MOTORS
    /\ pc = "lib"
    /\ design = NoDesign
    /\ params = NoParams
    /\ dt = DT
    /\ state = NoState
    /\ states = << >>
    /\ telemetryHistory = << >>
    /\ response = NoResponse
    /\ nRequests = 0
    /\ prevRun = NoRun
    /\ peer = NoPeer
    /\ page = NoPage
    /\ call \in LibCalls

NextLib ==
    \/ ApplyStability
    \/ ApplyGetPreLaunchResults
    \/ ApplyComputeCG
    \/ ApplyCenterOfPressure
    \/ ApplyDragCoefficient
    \/ ApplyThrustAt

SpecLib == InitLib /\ [][NextLib]_vars

-----------------------------------------------------------------------------
(* RocketSimulator.tsx: the page.  Its state is the record page: the React  *)
(* state (design, simState, isRunning, telemetryHistory), the refs          *)
(* (playbackStates, playbackHistory), the position of the playback clock    *)
(* (elapsed, in ticks since startTimeRef), fetching (a launch request is in *)
(* flight), and three records of what happened: playbackDesign, the design  *)
(* of the request whose response filled the refs, startedWith, the design   *)
(* on the page when the playback was last started, and afterReset, Reset    *)
(* was pressed and no launch since.  The trajectory route serves the page's *)
(* request with the actions above; it shares nothing with the page, so a    *)
(* page event during the handler's loop is one before or after it.          *)

\* the updates handleDesignChange is called with: another payload mass,
\* another body length (a geometry update, which clamps the fin position)
DesignUpdates ==
    {[payloadMass |-> PayloadStep], [geometry |-> [bodyLength |-> 200]]}

\* { ...d, ...updates }
Merge(d, updates) ==
    [k \in DOMAIN d |-> IF k \in DOMAIN updates THEN updates[k] ELSE d[k]]

\* handleDesignChange without the clamp of the fin position
handleDesignChangeNoClamp(d, updates) ==
    LET next == Merge(d, updates)
    IN  IF "geometry" \in DOMAIN updates
        THEN [next EXCEPT !.geometry = Merge(d.geometry, updates.geometry)]
        ELSE next

handleDesignChange(d, updates) ==
    LET next == Merge(d, updates)
    IN  IF "geometry" \in DOMAIN updates
        THEN LET g == Merge(d.geometry, updates.geometry)
                 clamped == Max(g.noseLength + 10,
                                Min(g.finRootLeadingEdge,
                                    g.noseLength + g.bodyLength - 10))
             IN  [next EXCEPT !.geometry = [g EXCEPT !.finRootLeadingEdge = clamped]]
        ELSE next

\* ticks of the clock between two frames of the playback that are observed
PlaybackAdvances == {120, 200}

InitPage ==
    /\ catalog = MOTORS
    /\ pc = "idle"
    /\ design = NoDesign
    /\ params = NoParams
    /\ dt = DT
    /\ state = NoState
    /\ states = << >>
    /\ telemetryHistory = << >>
    /\ response = NoResponse
    /\ nRequests = 0
    /\ prevRun = NoRun
    /\ peer = NoPeer
    /\ call = NoCall
    /\ page = [design |-> DEFAULT_DESIGN, simState |-> NoState, isRunning |-> FALSE,
               telemetryHistory |-> << >>, playbackStates |-> << >>,
               playbackHistory |-> << >>, elapsed |-> 0, fetching |-> FALSE,
               playbackDesign |-> NoDesign, startedWith |-> NoDesign,
               afterReset |-> FALSE]

serverVars == <<catalog, pc, design, params, dt, state, states, telemetryHistory,
                response, nRequests, prevRun, peer, call>>

\* the user moves a control of the sidebar
HandleDesignChange ==
    /\ pc # "loop"
    /\ \E u \in DesignUpdates :
          /\ handleDesignChange(page.design, u) # page.design
          /\ page' = [page EXCEPT !.design = handleDesignChange(page.design, u)]
    /\ UNCHANGED serverVars

\* handlePlayPause while playing, or with states to play
HandlePlayPause ==
    /\ pc # "loop"
    /\ page.isRunning \/ Len(page.playbackStates) > 0
    /\ page' = IF page.isRunning
               THEN [page EXCEPT !.isRunning = FALSE]
               ELSE [page EXCEPT !.isRunning = TRUE, !.startedWith = page.design]
    /\ UNCHANGED serverVars

\* handlePlayPause with nothing to play: handleLaunch posts the design
HandleLaunch ==
    /\ pc = "idle"
    /\ ~page.isRunning
    /\ Len(page.playbackStates) = 0
    /\ ~page.fetching
    /\ StartRun(page.design)
    /\ page' = [page EXCEPT !.fetching = TRUE, !.afterReset = FALSE]
    /\ UNCHANGED <<catalog, telemetryHistory, nRequests, prevRun, peer, call>>

\* the response of the launch arrives: lines 161-176 of handleLaunch
ReceiveLaunch ==
    /\ pc = "done"
    /\ page.fetching
    /\ page' = IF response.status # 200
               THEN [page EXCEPT !.fetching = FALSE]
               ELSE [page EXCEPT
                       !.fetching = FALSE,
                       !.playbackStates = states,
                       !.playbackHistory = telemetryHistory,
                       !.telemetryHistory = telemetryHistory,
                       !.simState = IF Len(states) > 0 THEN states[1] ELSE NoState,
                       !.elapsed = 0,
                       !.isRunning = TRUE,
                       !.playbackDesign = design,
                       !.startedWith = page.design]
    /\ pc' = "idle"
    /\ design' = NoDesign
    /\ params' = NoParams
    /\ state' = NoState
    /\ states' = << >>
    /\ telemetryHistory' = << >>
    /\ response' = NoResponse
    /\ UNCHANGED <<catalog, dt, nRequests, prevRun, peer, call>>

\* a frame of the playback effect: lines 193-218
PlaybackTick ==
    /\ pc # "loop"
    /\ page.isRunning
    /\ Len(page.playbackStates) > 0
    /\ \E k \in PlaybackAdvances :
          LET n == Len(page.playbackStates)
              elapsed == Min(page.elapsed + k, n)
              index == Min(elapsed, n - 1)
              shown == page.playbackStates[index + 1]
          IN  page' = [page EXCEPT
                         !.elapsed = elapsed,
                         !.simState = shown,
                         !.telemetryHistory =
                             IF index < Len(page.playbackHistory)
                             THEN SubSeq(page.playbackHistory, 1, index + 1)
                             ELSE @,
                         !.isRunning = ~(\/ index >= n - 1
                                         \/ shown.phase = "apogee"
                                         \/ shown.phase = "recovery")]
    /\ UNCHANGED serverVars

HandleReset ==
    /\ pc # "loop"
    /\ \/ page.isRunning
       \/ page.simState # NoState
       \/ Len(page.playbackStates) > 0
       \/ page.fetching
    /\ page' = [page EXCEPT !.isRunning = FALSE, !.simState = NoState,
                            !.telemetryHistory = << >>,
                            !.playbackStates = << >>, !.playbackHistory = << >>,
                            !.elapsed = 0,
                            !.playbackDesign = NoDesign, !.startedWith = NoDesign,
                            !.afterReset = TRUE]
    /\ UNCHANGED serverVars

NextPage ==
    \/ HandleDesignChange
    \/ HandlePlayPause
    \/ HandleLaunch
    \/ LoopStep /\ page # NoPage
    \/ Respond /\ page # NoPage
    \/ ReceiveLaunch
    \/ PlaybackTick
    \/ HandleReset

SpecPage == InitPage /\ [][NextPage]_vars

-----------------------------------------------------------------------------
(* RocketSimulator.tsx: the pre-launch analysis of the page.  Here page is  *)
(* the design, the displayed results (preLaunch), whether the 300 ms timer  *)
(* of the effect is pending (debounce), and the designs of the analysis     *)
(* requests whose responses have not arrived yet (inFlight).                *)

DEFAULT_PRELAUNCH ==
    [cp |-> 300, cg |-> 250, stabilityCalibers |-> 12500, isStable |-> TRUE]

\* analysis requests that may be outstanding at a time
MaxInFlight == 2

\* the updates of the design during the analysis: those above and a payload
\* mass the design can be changed back and forth to
AnalysisUpdates == DesignUpdates \cup {[payloadMass |-> 2 * PayloadStep]}

\* what the analysis route answers to a request with design d
AnalyzeResponse(d) ==
    IF d = NoDesign
    THEN [kind |-> "analyze", status |-> 400, error |-> "Missing design"]
    ELSE [kind |-> "analyze", status |-> 200, body |-> getPreLaunchResults(d)]

\* Remove the i-th element of a sequence
RemoveAt(seq, i) == SubSeq(seq, 1, i - 1) \o SubSeq(seq, i + 1, Len(seq))

\* the page after mount: the effect has set its timer for the initial design
InitPreLaunch ==
    /\ catalog = MOTORS
    /\ pc = "idle"
    /\ design = NoDesign
    /\ params = NoParams
    /\ dt = DT
    /\ state = NoState
    /\ states = << >>
    /\ telemetryHistory = << >>
    /\ response = NoResponse
    /\ nRequests = 0
    /\ prevRun = NoRun
    /\ peer = NoPeer
    /\ call = NoCall
    /\ page = [design |-> DEFAULT_DESIGN, preLaunch |-> DEFAULT_PRELAUNCH,
               debounce |-> TRUE, inFlight |-> << >>]

\* the user moves a control: setDesign, and the effect restarts its timer
EditDesign ==
    /\ \E u \in AnalysisUpdates :
          /\ handleDesignChange(page.design, u) # page.design
          /\ page' = [page EXCEPT !.design = handleDesignChange(page.design, u),
                                  !.debounce = TRUE]
    /\ UNCHANGED serverVars

\* the timer fires: fetchPreLaunch posts the design of the last render
DebounceFires ==
    /\ page.debounce
    /\ Len(page.inFlight) < MaxInFlight
    /\ page' = [page EXCEPT !.debounce = FALSE,
                            !.inFlight = Append(@, page.design)]
    /\ UNCHANGED serverVars

\* the response to one of the requests arrives, in whatever order
AnalysisArrives ==
    /\ \E i \in 1..Len(page.inFlight) :
          LET res == AnalyzeResponse(page.inFlight[i])
          IN  page' = [page EXCEPT
                         !.preLaunch = IF res.status = 200 THEN res.body ELSE @,
                         !.inFlight = RemoveAt(@, i)]
    /\ UNCHANGED serverVars

NextPreLaunch == EditDesign \/ DebounceFires \/ AnalysisArrives

SpecPreLaunch == InitPreLaunch /\ [][NextPreLaunch]_vars

-----------------------------------------------------------------------------
(* LeftSidebar.tsx: edits of the design through the controls of the         *)
(* sidebar.  Here page is the design, the control last used (edited) and    *)
(* whether that edit moved the fin position without being an edit of the    *)
(* fin position (moved).                                                    *)

\* positions of the nose length slider (0.02 .. 0.5 m), of the body length
\* slider (0.1 .. 1.5 m), values of the payload mass input (0 .. 2 kg)
NoseLengths == {20, 100, 300, 500}
BodyLengths == {100, 350, 1500}
PayloadMasses == {0, 200, PayloadStep}

\* positions of the fin position slider for geometry g: its two ends and
\* the multiples of 0.1 m between them
FinPositions(g) ==
    LET min == g.noseLength + 10
        max == g.noseLength + g.bodyLength - 10
    IN  {min, max} \cup {x \in {100 * k : k \in 1..20} : min <= x /\ x <= max}

\* onDesignChange({ geometry: { ...g, ...updates } })
updateGeometry(d, updates) == [geometry |-> Merge(d.geometry, updates)]

InitEdit ==
    /\ catalog = MOTORS
    /\ pc = "idle"
    /\ design = NoDesign
    /\ params = NoParams
    /\ dt = DT
    /\ state = NoState
    /\ states = << >>
    /\ telemetryHistory = << >>
    /\ response = NoResponse
    /\ nRequests = 0
    /\ prevRun = NoRun
    /\ peer = NoPeer
    /\ call = NoCall
    /\ page = [design |-> DEFAULT_DESIGN, edited |-> "none", moved |-> FALSE]

\* the page after the control named control has called onDesignChange(updates)
Edited(control, updates) ==
    LET next == handleDesignChange(page.design, updates)
    IN  [design |-> next, edited |-> control,
         moved |-> /\ control # "finRootLeadingEdge"
                   /\ next.geometry.finRootLeadingEdge
                          # page.design.geometry.finRootLeadingEdge]

EditNoseLength ==
    /\ \E v \in NoseLengths :
          page' = Edited("noseLength", updateGeometry(page.design, [noseLength |-> v]))
    /\ UNCHANGED serverVars

EditBodyLength ==
    /\ \E v \in BodyLengths :
          page' = Edited("bodyLength", updateGeometry(page.design, [bodyLength |-> v]))
    /\ UNCHANGED serverVars

EditFinPosition ==
    /\ \E v \in FinPositions(page.design.geometry) :
          page' = Edited("finRootLeadingEdge",
                         updateGeometry(page.design, [finRootLeadingEdge |-> v]))
    /\ UNCHANGED serverVars

EditPayloadMass ==
    /\ \E v \in PayloadMasses :
          page' = Edited("payloadMass", [payloadMass |-> v])
    /\ UNCHANGED serverVars

NextEdit == EditNoseLength \/ EditBodyLength \/ EditFinPosition \/ EditPayloadMass

SpecEdit == InitEdit /\ [][NextEdit]_vars

-----------------------------------------------------------------------------
(* Claims about the phase state machine, the altitude and the mass of a     *)
(* trajectory (checked under SpecStep unless said otherwise)                *)

Rank(phase) ==
    CASE phase = "pre" -> 0
      [] phase = "burn" -> 1
      [] phase = "coast" -> 2
      [] phase = "apogee" -> 3
      [] phase = "recovery" -> 4

\* the indices of the states of the trajectory that have a successor
Steps == IF Len(states) = 0 THEN {} ELSE 1..(Len(states) - 1)

PhaseIndices(phase) == {i \in 1..Len(states) : states[i].phase = phase}

\* C1: along a trajectory the phase never regresses in the order
\* pre < burn < coast < apogee < recovery
C1_PhaseNeverRegresses ==
    \A i \in Steps : Rank(states[i + 1].phase) >= Rank(states[i].phase)

\* a trajectory that went through burn and coast and reached recovery
C1_Witness ==
    /\ pc = "step"
    /\ dt = DT
    /\ state.phase = "recovery"
    /\ PhaseIndices("burn") # {}
    /\ PhaseIndices("coast") # {}

AllowedTransitions ==
    {<<"pre", "burn">>, <<"pre", "coast">>, <<"burn", "coast">>,
     <<"coast", "apogee">>, <<"apogee", "recovery">>}

\* C2: between two consecutive states the phase is unchanged or changes by one
\* of pre->burn, pre->coast, burn->coast, coast->apogee, apogee->recovery
C2_OnlyListedTransitions ==
    \A i \in Steps :
        \/ states[i + 1].phase = states[i].phase
        \/ <<states[i].phase, states[i + 1].phase>> \in AllowedTransitions

\* C3: a state with phase apogee is followed by a state with phase recovery, a
\* trajectory holds at most one apogee state (exactly one if it reaches
\* recovery), and recovery is kept by every later step
C3_ApogeeOneStateRecoveryTerminal ==
    /\ \A i \in Steps : states[i].phase = "apogee" => states[i + 1].phase = "recovery"
    /\ Cardinality(PhaseIndices("apogee")) <= 1
    /\ PhaseIndices("recovery") # {} => Cardinality(PhaseIndices("apogee")) = 1
    /\ \A i \in Steps : states[i].phase = "recovery" => states[i + 1].phase = "recovery"

\* a trajectory that coasted and was stepped on after it reached recovery
C3_Witness ==
    /\ pc = "step"
    /\ dt = DT
    /\ PhaseIndices("coast") # {}
    /\ \E i \in Steps : states[i].phase = "recovery" /\ states[i + 1].phase = "recovery"
    /\ PhaseIndices("apogee") # {}

\* C4: the altitude of every state of a trajectory is >= 0
C4_AltitudeNeverNegative ==
    \A i \in 1..Len(states) : states[i].altitude >= 0

\* a step that would have taken the rocket below the ground: it moves down
\* from altitude 0
C4_Witness ==
    /\ pc = "step"
    /\ \E i \in Steps :
          /\ states[i].altitude = 0
          /\ states[i].velocity < 0
          /\ states[i + 1].acceleration < 0
          /\ states[i + 1].altitude = 0

\* C5: over consecutive burn states the mass does not increase, and the first
\* state after the burn phase has mass dryMass + motor.dryMass
C5_BurnMassMonotoneThenDry ==
    pc = "step" =>
        \A i \in Steps :
            states[i].phase = "burn" =>
                IF states[i + 1].phase = "burn"
                THEN states[i + 1].mass <= states[i].mass
                ELSE states[i + 1].mass = params.dryMass + params.motor.dryMass

\* a burn of several states in which propellant was used, followed by burnout
C5_Witness ==
    /\ pc = "step"
    /\ dt = DT
    /\ \E i \in Steps :
          /\ states[i].phase = "burn"
          /\ states[i + 1].phase = "burn"
          /\ states[i + 1].mass < states[i].mass
    /\ \E i \in Steps : states[i].phase = "burn" /\ states[i + 1].phase # "burn"

-----------------------------------------------------------------------------
(* Claims about the trajectory route and the analysis route (checked under  *)
(* Spec unless said otherwise)                                              *)

InCatalog(id) == \E i \in DOMAIN catalog : catalog[i].id = id

\* the request being served is a trajectory request whose design names a
\* catalog motor / a motor that is not in the catalog
RunResolved == design # NoDesign /\ InCatalog(design.motorId) /\ pc \in {"loop", "break", "done"}
                  /\ (pc = "done" => response.kind = "run")
RunUnresolved == design # NoDesign /\ ~InCatalog(design.motorId)
                  /\ pc = "done" /\ response.kind = "run"

C7_RunReturnsInitialThenSteps ==
    (RunResolved /\ pc = "done") =>
        /\ LET s0 == states[1] IN
              /\ s0.phase = "pre" /\ s0.time = 0 /\ s0.altitude = 0 /\ s0.velocity = 0
              /\ s0.mass = params.dryMass + params.motor.dryMass
                             + params.motor.propellantMass
              /\ s0.cd = dragCoefficient(0)
              /\ s0.thrust = 0 /\ s0.drag = 0 /\ s0.trail = << >>
        /\ \A i \in Steps : states[i + 1] = stepSimulation(states[i], params, DT)
        /\ Len(telemetryHistory) = Len(states)
        /\ \A i \in 1..Len(states) :
              telemetryHistory[i] = [time |-> states[i].time,
                                     altitude |-> states[i].altitude,
                                     velocity |-> states[i].velocity]

\* a returned flight that burned, coasted and came to recovery
C7_Witness ==
    /\ RunResolved
    /\ pc = "done"
    /\ PhaseIndices("coast") # {}
    /\ states[Len(states)].phase = "recovery"
    /\ Len(telemetryHistory) > 2

\* C8: a trajectory request whose motorId is not in the catalog is answered
\* with the error 'Invalid motor or design'; it has no params, no states and
\* no telemetry, and no step is executed
C8_UnknownMotorRunFails ==
    /\ (design # NoDesign /\ ~InCatalog(design.motorId)) => pc \notin {"loop", "break"}
    /\ RunUnresolved =>
          /\ params = NoParams
          /\ response = [kind |-> "run", status |-> 400,
                         error |-> "Invalid motor or design"]
          /\ state = NoState
          /\ states = << >>
          /\ telemetryHistory = << >>

\* the trajectory route has answered a design with an unknown motor
C8_Witness == RunUnresolved /\ response.status = 400

\* C9: the analysis of a design whose motorId is not in the catalog reports
\* the unresolved motor: its response is an error, or carries something the
\* response for a resolved motor does not
C9_AnalyzeReportsUnresolvedMotor ==
    (/\ pc = "done"
     /\ response.kind = "analyze"
     /\ design # NoDesign
     /\ ~InCatalog(design.motorId))
        => \/ response.status # 200
           \/ DOMAIN response # {"kind", "status", "body"}
           \/ DOMAIN response.body # {"cp", "cg", "stabilityCalibers", "isStable"}

-----------------------------------------------------------------------------
(* Claims about requests served at the same time (SpecConcurrent)           *)

\* what the trajectory route returns for design d when it is served alone, as
\* far as a handler at position pos has got: the states are the initial state
\* followed by the steps of their predecessors, all of them before the last
\* satisfy the loop's condition, and a finished handler has answered with the
\* telemetry of its states
AsRunAlone(d, pos, resp, ss, th) ==
    LET p == getSimParams(d)
        cond(x) == x.time < maxTime /\ x.phase # "recovery"
    IN  IF p = NoParams
        THEN /\ pos = "done"
             /\ ss = << >> /\ th = << >>
             /\ resp = [kind |-> "run", status |-> 400,
                        error |-> "Invalid motor or design"]
        ELSE /\ pos \in {"loop", "break", "done"}
             /\ Len(ss) >= 1
             /\ ss[1] = createSimulationState(p)
             /\ \A i \in 1..(Len(ss) - 1) :
                   cond(ss[i]) /\ ss[i + 1] = stepSimulation(ss[i], p, DT)
             /\ pos = "done" =>
                   /\ ~cond(ss[Len(ss)]) \/ Len(ss) > maxStates(DT)
                   /\ th = MapTelemetry(ss)
                   /\ resp = [kind |-> "run", status |-> 200]

AsAnalyzeAlone(d, resp) ==
    resp = [kind |-> "analyze", status |-> 200, body |-> getPreLaunchResults(d)]

\* C11: with the steps of two requests interleaved in any order, each request
\* gets the result it gets when served alone, and the motor catalog stays as
\* the module set it
C11_InterleavedRunsAsAlone ==
    /\ catalog = MOTORS
    /\ (pc # "idle" /\ design # NoDesign) =>
          IF pc = "done" /\ response.kind = "analyze"
          THEN AsAnalyzeAlone(design, response)
          ELSE AsRunAlone(design, pc, response, states, telemetryHistory)
    /\ peer # NoPeer =>
          IF peer.pc = "done" /\ peer.response.kind = "analyze"
          THEN AsAnalyzeAlone(peer.design, peer.response)
          ELSE AsRunAlone(peer.design, peer.pc, peer.response, peer.states,
                          peer.telemetryHistory)

\* two runs of different designs, their loops interleaved, have both answered
C11_Witness ==
    /\ pc = "done" /\ response = [kind |-> "run", status |-> 200]
    /\ peer # NoPeer
    /\ peer.pc = "done" /\ peer.response = [kind |-> "run", status |-> 200]
    /\ peer.interleaved
    /\ peer.design # design
    /\ Len(states) > 2 /\ Len(peer.states) > 2

-----------------------------------------------------------------------------
(* Claims about the trail, the frame of a step and the drag (SpecStep)      *)

\* C12: the state reached after n steps with capacity c has a trail of
\* min(n, c) entries, the ones appended by the most recent min(n, c) steps,
\* oldest first, and its last entry carries the altitude, velocity and time of
\* the state itself
C12_TrailBoundedFifo ==
    pc = "step" =>
        LET c == Field(params, "maxTrailPoints", MAX_TRAIL)
            n == Len(states) - 1
            k == Min(n, c)
            trail == state.trail
        IN  /\ state = states[n + 1]
            /\ Len(trail) = k
            /\ \A j \in 1..k : trail[j] = TrailPoint(states[n + 1 - k + j])
            /\ \A j \in 1..(k - 1) : trail[j].time < trail[j + 1].time

\* a trail at its capacity that has evicted entries
C12_Witness ==
    /\ pc = "step"
    /\ dt = DT
    /\ "maxTrailPoints" \in DOMAIN params
    /\ params.maxTrailPoints = 3
    /\ Len(states) > 6
    /\ Len(state.trail) = 3
    /\ state.trail[1].time = state.time - 2

C14_DragOpposesVelocity ==
    pc = "step" =>
        \A i \in Steps :
            /\ states[i].velocity >= 0 => states[i + 1].drag <= 0
            /\ states[i].velocity < 0 => states[i + 1].drag >= 0

\* a trajectory with drag on the way up and drag on the way down
C14_Witness ==
    /\ pc = "step"
    /\ dt = DT
    /\ \E i \in Steps : states[i].velocity > 0 /\ states[i + 1].drag < 0
    /\ \E i \in Steps : states[i].velocity < 0 /\ states[i + 1].drag > 0

-----------------------------------------------------------------------------
(* Claims about the library functions (SpecLib)                             *)

Applied(fn) == pc = "lib" /\ call.fn = fn /\ call.returned

\* C15: the analysis returns isStable = TRUE exactly when its stabilityCalibers
\* is >= 1, with stabilityCalibers = (cp - cg) / bodyDiameter; it agrees with
\* stabilityMarginCalibers and isStable (minimum 1) of the library; and the
\* margin of CP and CG swapped is minus the margin
C15_StableIffMarginAtLeastOne ==
    /\ Applied("getPreLaunchResults") =>
          LET r == call.result
              d == call.args.design.geometry.bodyDiameter
          IN  /\ r.isStable <=> (r.stabilityCalibers >= E4)
              /\ r.stabilityCalibers = Quot((r.cp - r.cg) * E4, d)
              /\ r.stabilityCalibers = stabilityMarginCalibers(r.cp, r.cg, d)
              /\ r.isStable = isStableDefault(stabilityMarginCalibers(r.cp, r.cg, d))
    /\ Applied("stabilityMarginCalibers") =>
          LET a == call.args IN
          /\ call.result.isStable <=> (call.result.calibers >= E4)
          /\ stabilityMarginCalibers(a.cgFromNose, a.cpFromNose, a.diameter)
                = - call.result.calibers

\* an analysis that found the design stable
C15_Witness ==
    /\ Applied("getPreLaunchResults")
    /\ call.result.isStable
    /\ call.result.stabilityCalibers >= E4

\* an analysis that found the design unstable, CP ahead of CG
C15_WitnessUnstable ==
    /\ Applied("getPreLaunchResults")
    /\ ~call.result.isStable
    /\ call.result.stabilityCalibers < 0

\* a margin of exactly one caliber
C15_WitnessBoundary ==
    /\ Applied("stabilityMarginCalibers")
    /\ call.result.calibers = E4
    /\ call.result.isStable

\* the components c in the order f
Reordered(c, f) == [i \in 1..Len(c) |-> c[f[i]]]

C16_WitnessNoMass ==
    /\ Applied("computeCG")
    /\ Len(call.args.components) = 2
    /\ SumM(call.args.components, 1) < 0
    /\ call.result = 0

\* C17: centerOfPressure returns the nose-only offset (2/3 of the nose
\* length for a cone, 0.466 of it for an ogive) whenever the normal-force
\* coefficient of the fins is 0, and 0 when the combined coefficient is <= 0
C17_NoseOnlyWhenFinsCarryNothing ==
    Applied("centerOfPressure") =>
        LET g == call.args.geometry
            nose == noseTerms(g.noseLength, g.noseShape)
            fin == finTerms(g)
        IN  /\ fin.CN = 0 =>
                  call.result = (IF g.noseShape = "cone" THEN (2 * g.noseLength) \div 3
                                 ELSE (466 * g.noseLength) \div 1000)
            /\ (~IsNaN(fin.CN) /\ nose.CN + fin.CN <= 0) => call.result = 0

\* the same for fins with a chord: CR + CT > 0
C17_NoseOnlyWithChord ==
    (Applied("centerOfPressure")
        /\ call.args.geometry.finRootChord + call.args.geometry.finTipChord > 0)
    => C17_NoseOnlyWhenFinsCarryNothing

\* what two values of Cd that count as equal may differ by: 0.001
CdTolerance == E4 \div 1000

\* the value of dragCoefficient just below Mach m and just above it agree
ContinuousAt(m) ==
    /\ Abs(dragCoefficient(m) - dragCoefficient(m - 1)) <= CdTolerance
    /\ Abs(dragCoefficient(m + 1) - dragCoefficient(m)) <= CdTolerance

\* C18: dragCoefficient is continuous at the band edges Mach 0.8 and Mach 1.2:
\* the value next to the edge on one side equals the value next to it on the
\* other side
C18_DragCoefficientContinuousAtEdges ==
    (Applied("dragCoefficient") /\ call.args.mach \in {8000, 12000}) =>
        /\ ContinuousAt(call.args.mach)
        /\ Abs(call.result - dragCoefficient(call.args.mach + 1)) <= CdTolerance

\* the subsonic edge alone: 0.35 meets the transonic curve at Mach 0.8
C18_ContinuousAtSubsonicEdge ==
    (Applied("dragCoefficient") /\ call.args.mach = 8000) =>
        /\ ContinuousAt(8000)
        /\ call.result = dragCoefficient(7999)

\* C19: thrustAt(t) of a catalog motor is a trapezoid: 0 for t <= 0 and for
\* t >= burnTime, rising linearly to the peak over the first 10% of burnTime,
\* the peak up to 80% of it, falling linearly to 0 over the rest; so it is
\* between 0 and the peak, and from one tick to the next it changes by no more
\* than the steeper ramp does
C19_ThrustTrapezoidal ==
    Applied("thrustAt") =>
        LET motor == call.args.motor
            t == call.args.t
            r == call.result
            bt == motor.burnTime
            peak == motor.peakThrust * 1000
            \* the rise of the first ramp in one tick, and the rounding of a ramp
            slope == (peak * 10) \div bt + peak \div 500
        IN  /\ (t <= 0 \/ t >= bt) => r = 0
            /\ 0 <= r /\ r <= peak
            /\ (0 < t /\ 10 * t < bt) =>
                  r = motor.peakThrust * ((t * 10 * 1000) \div bt)
            /\ (bt <= 10 * t /\ 10 * t <= 8 * bt) => r = peak
            /\ (8 * bt < 10 * t /\ t < bt) =>
                  r = motor.peakThrust * (((bt - t) * 5 * 1000) \div bt)
            /\ Abs(thrustAt(motor, t + 1) - r) <= slope

\* a point on the ramp down, below the peak and above 0
C19_Witness ==
    /\ Applied("thrustAt")
    /\ 10 * call.args.t > 8 * call.args.motor.burnTime
    /\ call.args.t < call.args.motor.burnTime
    /\ call.result > 0
    /\ call.result < call.args.motor.peakThrust * 1000

\* a point on the ramp up
C19_WitnessRampUp ==
    /\ Applied("thrustAt")
    /\ call.args.t > 0
    /\ 10 * call.args.t < call.args.motor.burnTime
    /\ call.result > 0
    /\ call.result < call.args.motor.peakThrust * 1000

-----------------------------------------------------------------------------
(* Claim about the page (SpecPage)                                          *)

\* C20: a launch request carries the design that is on the page when it is
\* made, and whenever the playback is running, the states it plays were
\* computed from the design that was on the page when it was started
C20_PlaybackOfTheCurrentDesign ==
    /\ (pc = "loop" /\ Len(states) = 1) => design = page.design
    /\ page.isRunning => page.playbackDesign = page.startedWith

\* the launch alone: a request is computed for the design on the page
C20_LaunchUsesCurrentDesign ==
    (pc = "loop" /\ Len(states) = 1) => design = page.design

-----------------------------------------------------------------------------
(* Claims about the samples of a trajectory: velocity at the apogee, mass   *)
(* and phase against the burn window, the recorded apogee (SpecStep)        *)

\* the indices of the states of the trajectory that a step produced
Stepped == 2..Len(states)

motorStartTime == Field(params, "motorStartTime", 0)

InBurnWindow(t) ==
    motorStartTime <= t /\ t < motorStartTime + params.motor.burnTime

\* C21: no state with phase coast has a negative velocity, and the state in
\* which the phase becomes apogee has a negative velocity
C21_ApogeeAtVelocitySignFlip ==
    pc = "step" =>
        \A i \in 1..Len(states) :
            /\ states[i].phase = "coast" => states[i].velocity >= 0
            /\ states[i].phase = "apogee" => states[i].velocity < 0

\* C22: the mass of every state follows the burn window: the full wet mass
\* before ignition, the wet mass less the propellant used inside the window,
\* dryMass + motor.dryMass at and after the end of the window
C22_MassFollowsBurnWindow ==
    pc = "step" =>
        \A i \in 1..Len(states) :
            LET s == states[i]
                motor == params.motor
                wet == params.dryMass + motor.dryMass + motor.propellantMass
            IN  /\ s.time < motorStartTime => s.mass = wet
                /\ InBurnWindow(s.time) =>
                      s.mass = wet - ((s.time - motorStartTime) * motor.propellantMass)
                                         \div motor.burnTime
                /\ s.time >= motorStartTime + motor.burnTime =>
                      s.mass = params.dryMass + motor.dryMass

\* C23: in every state a step produced, the phase is burn exactly when the
\* time is inside the burn window, the phase is pre only before the ignition
\* time, and the thrust is 0 when the phase is not burn
C23_PhaseAgreesWithBurnWindow ==
    pc = "step" =>
        \A i \in Stepped :
            /\ states[i].phase = "burn" <=> InBurnWindow(states[i].time)
            /\ states[i].phase = "pre" => states[i].time < motorStartTime
            /\ states[i].phase # "burn" => states[i].thrust = 0

\* a delayed ignition stepped through: a stepped state still in pre, the state
\* at the ignition time itself in burn with thrust, and a coast state after it
C23_Witness ==
    /\ pc = "step"
    /\ motorStartTime > 0
    /\ \E i \in Stepped : states[i].phase = "pre"
    /\ \E i \in Stepped : /\ states[i].time = motorStartTime
                          /\ states[i].phase = "burn"
    /\ \E i \in Stepped : states[i].phase = "burn" /\ states[i].thrust > 0
    /\ \E i \in Stepped : states[i].phase = "coast"

\* a is the highest altitude of the states of the trajectory
HighestAltitude(a) ==
    /\ \E i \in 1..Len(states) : states[i].altitude = a
    /\ \A i \in 1..Len(states) : states[i].altitude <= a

\* C24: in the apogee state and the recovery state after it the recorded apogee
\* is the highest altitude of the trajectory, and in every state it is at most
\* the highest altitude so far
C24_ApogeeIsHighestAltitude ==
    pc = "step" =>
        LET n == Len(states)
        IN  /\ \E i \in 1..n : states[i].altitude >= state.apogee
            /\ (\/ state.phase = "apogee"
                \/ (n > 1 /\ states[n - 1].phase = "apogee")) =>
                   HighestAltitude(state.apogee)

\* C26: every state with phase pre is at rest on the pad
C26_AtRestBeforeIgnition ==
    pc = "step" =>
        \A i \in 1..Len(states) :
            states[i].phase = "pre" =>
                states[i].altitude = 0 /\ states[i].velocity = 0

-----------------------------------------------------------------------------
(* Claim about the mass a run starts with (Spec)                            *)

\* the mass of the components of a design with a catalog motor, each once
massOfComponents(d) ==
    LET g == d.geometry
        motor == getMotor(d.motorId)
    IN  Field(d, "noseMass", noseMassEstimate(g.bodyDiameter, g.noseLength))
          + d.bodyMass + d.finMass + d.payloadMass
          + motor.dryMass + motor.propellantMass

\* C25: the initial state of a run has the mass of nose, body, fins, payload,
\* motor casing and propellant, each counted once, which is the total mass of
\* the components Analyze builds for the design; the states after the burn
\* have that mass less the propellant
C25_InitialMassCountsEachComponentOnce ==
    (RunResolved /\ Len(states) > 0) =>
        LET comps == buildCGComponents(preLaunchCGParams(design))
            once == massOfComponents(design)
        IN  /\ once = SumM(comps, 1)
            /\ states[1].mass = once
            /\ \A i \in 1..Len(states) :
                  states[i].phase \in {"coast", "apogee", "recovery"} =>
                      states[i].mass = once - getMotor(design.motorId).propellantMass

\* the part about Analyze alone: the components Analyze builds weigh
\* massOfComponents
C25_AnalyzeCountsEachComponentOnce ==
    (RunResolved /\ Len(states) > 0) =>
        LET comps == buildCGComponents(preLaunchCGParams(design))
        IN  massOfComponents(design) = SumM(comps, 1)

-----------------------------------------------------------------------------
(* Claim about the atmosphere and drag values of a sample (SpecStep)        *)

\* drag is zero or opposite in sign to the velocity v
Opposes(drag, v) ==
    \/ drag = 0
    \/ (v > 0 /\ drag < 0)
    \/ (v < 0 /\ drag > 0)

\* C27: the last state of the trajectory carries the Mach number, the air
\* density, the drag coefficient and the drag of its own altitude and velocity
C27_SampleSelfConsistent ==
    pc = "step" =>
        /\ state.mach = machNumber(Abs(state.velocity), state.altitude)
        /\ state.airDensity = density(state.altitude)
        /\ state.cd = dragCoefficient(state.mach)
        /\ Opposes(state.drag, state.velocity)

\* C27, as the step computes it: a stepped state carries the Mach number, the
\* air density, the drag coefficient and the drag of the altitude and velocity
\* of the state it was stepped from, and the initial state those of rest at
\* altitude 0
C27_SampleOfTheStateSteppedFrom ==
    pc = "step" =>
        /\ states[1].mach = machNumber(0, 0)
        /\ states[1].airDensity = density(0)
        /\ states[1].cd = dragCoefficient(0)
        /\ states[1].drag = 0
        /\ Len(states) > 1 =>
              LET from == states[Len(states) - 1]
              IN  /\ state.mach = machNumber(Abs(from.velocity), from.altitude)
                  /\ state.airDensity = density(from.altitude)
                  /\ state.cd = dragCoefficient(state.mach)
                  /\ Opposes(state.drag, from.velocity)
                  /\ Abs(state.drag) = dragForceMagnitude(state.airDensity,
                                           Abs(from.velocity), state.cd,
                                           params.referenceArea)

\* a stepped state in thinner air than that of the pad, stepped from a lower
\* altitude, whose Mach number is not that of its own velocity, and a state
\* that falls while its drag still points down
C27_Witness ==
    /\ pc = "step"
    /\ Len(states) > 2
    /\ state.altitude > states[Len(states) - 1].altitude
    /\ state.airDensity < density(0)
    /\ state.mach # machNumber(Abs(state.velocity), state.altitude)
    /\ \E i \in Stepped : states[i].velocity < 0 /\ states[i].drag < 0

-----------------------------------------------------------------------------
(* Claim about Reset (SpecPage)                                             *)

\* C28: from Reset until the next launch the page shows no simulation state,
\* holds no playback states and is not running
C28_ResetStaysUntilLaunch ==
    page.afterReset =>
        /\ page.simState = NoState
        /\ Len(page.playbackStates) = 0
        /\ ~page.isRunning

-----------------------------------------------------------------------------
(* Claim about the displayed analysis (SpecPreLaunch)                       *)

\* C29: when no timer is pending and no analysis request is outstanding, the
\* displayed pre-launch results are those of the design on the page
C29_DisplayedAnalysisIsCurrent ==
    (~page.debounce /\ page.inFlight = << >>) =>
        page.preLaunch = getPreLaunchResults(page.design)

-----------------------------------------------------------------------------
(* Claim about the fin position after edits (SpecEdit)                      *)

\* C30: after any sequence of edits through the controls, the fin root leading
\* edge lies strictly between noseLength and noseLength + bodyLength
C30_FinPositionInsideBody ==
    LET g == page.design.geometry
    IN  /\ g.noseLength < g.finRootLeadingEdge
        /\ g.finRootLeadingEdge < g.noseLength + g.bodyLength

\* an edit of the nose length alone that moved the fin position, and one of
\* the body length alone
C30_Witness ==
    /\ page.edited = "noseLength"
    /\ page.moved
    /\ page.design.geometry.noseLength + 10 = page.design.geometry.finRootLeadingEdge

\* an edit of the body length alone that moved the fin position
C30_WitnessBodyLength ==
    /\ page.edited = "bodyLength"
    /\ page.moved

=============================================================================
